---- MODULE Spec2Model ----
(***************************************************************************)
(* A model of mnespikes.Neuron (src/mnespikes/spikes.py): construction     *)
(* with bounds inference and validation, the time axis, the lazily         *)
(* computed `spikes` count matrix and the event table built by to_mne.     *)
(*                                                                         *)
(* Conventions of the model.                                               *)
(*  - Times are integers counted in a fixed base unit (read: 1/100 s).     *)
(*    sfreq is a positive rational <<n, d>>, bins per base unit, so that   *)
(*    10 bins per second is <<1, 10>>.  Products such as tmin * sfreq are  *)
(*    the exact rationals; float rounding is not modelled.                 *)
(*  - Python's None is the empty tuple, a supplied value v is <<v>>.       *)
(*  - A label is a record [t, v]: t = "str" with v the code point of a     *)
(*    one-character string, t = "int" with v the integer, t = "float"      *)
(*    with v the (integral) value.  numpy sorts both by v.                 *)
(*  - Python sequences are 0-based; the model's are 1-based, so Python's   *)
(*    data[ii, j] is data[ii + 1][j + 1] here.                             *)
(***************************************************************************)
EXTENDS Integers, Sequences, FiniteSets, TLC

VARIABLES
    args,       \* the arguments of the call Neuron(...)
    pc,         \* "new", "constructed" or "failed"
    init_error, \* the exception __init__ raised, "" when none
    neuron,     \* the attributes of the constructed object
    spikes_out, \* the last access to neuron.spikes
    mne_out     \* the last call of neuron.to_mne()

vars == <<args, pc, init_error, neuron, spikes_out, mne_out>>

----------------------------------------------------------------------------
(* Bounds of the model. *)

MaxTrials == 2
MaxSpikes == 2
MaxEvents == 3

----------------------------------------------------------------------------
(* Python and numpy primitives. *)

None == <<>>
Some(v) == <<v>>
IsNone(o) == o = <<>>
Val(o) == o[1]

Range(s) == {s[i] : i \in 1..Len(s)}

SetMax(S) == CHOOSE x \in S : \A y \in S : y <= x
SetMin(S) == CHOOSE x \in S : \A y \in S : x <= y

\* int(t * sfreq): Python's int() truncates toward zero.
IntTimesSfreq(t, sfreq) ==
    LET n == t * sfreq[1]
        d == sfreq[2]
    IN  IF n >= 0 THEN n \div d ELSE -((-n) \div d)

\* np.arange(lo, hi): lo, lo+1, ..., hi-1; empty when hi <= lo.
Arange(lo, hi) == [k \in 1..(IF hi > lo THEN hi - lo ELSE 0) |-> lo + k - 1]

\* time / float(sfreq): each entry as the fraction [num, den] = bin * d / n.
DivBySfreq(time, sfreq) ==
    [k \in 1..Len(time) |-> [num |-> time[k] * sfreq[2], den |-> sfreq[1]]]

StrLabel(c) == [t |-> "str", v |-> c]
IntLabel(i) == [t |-> "int", v |-> i]
FloatLabel(x) == [t |-> "float", v |-> x]

\* np.atleast_1d(events): a scalar becomes a one-element array.
AtLeast1d(ev) ==
    CASE ev.kind = "scalar" -> [ndim |-> 1, items |-> ev.labels]
      [] ev.kind = "list"   -> [ndim |-> 1, items |-> ev.labels]
      [] ev.kind = "nested" -> [ndim |-> 2, items |-> ev.labels]

RECURSIVE InsertSorted(_, _)
InsertSorted(x, s) ==
    IF s = <<>> THEN <<x>>
    ELSE IF x.v = Head(s).v THEN s
    ELSE IF x.v < Head(s).v THEN <<x>> \o s
    ELSE <<Head(s)>> \o InsertSorted(x, Tail(s))

UniqueBuggyKeepOrder(items) ==
    LET firsts == {i \in 1..Len(items) : \A j \in 1..(i - 1) : items[j] # items[i]}
        RECURSIVE Pick(_)
        Pick(S) == IF S = {} THEN <<>>
                   ELSE LET i == SetMin(S) IN <<items[i]>> \o Pick(S \ {i})
    IN  Pick(firsts)

\* np.unique(events): the distinct elements, sorted.
RECURSIVE Unique(_)
Unique(items) ==
    IF items = <<>> THEN <<>>
    ELSE InsertSorted(items[Len(items)], Unique(SubSeq(items, 1, Len(items) - 1)))

\* {ev_id: ii for ii, ev_id in enumerate(unique_events)}
EventId(unique_events) ==
    [l \in Range(unique_events) |->
        (CHOOSE i \in 1..Len(unique_events) : unique_events[i] = l) - 1]

\* event_id = {'1': 1}
DefaultEventId == [l \in {StrLabel(49)} |-> 1]

\* np.ones(len(spiketimes))
Ones(n) == [i \in 1..n |-> FloatLabel(1)]

----------------------------------------------------------------------------
(* Neuron.__init__ *)

\* if not isinstance(spiketimes[0], (list, np.ndarray)): spiketimes = [spiketimes]
Wrap(st) == IF st.flat THEN <<st.times>> ELSE st.trials

\* spiketimes[0] of an empty argument raises IndexError.
ArgIsEmpty(st) == IF st.flat THEN st.times = <<>> ELSE st.trials = <<>>

\* max(ii) / min(ii) of an empty trial raises ValueError.
HasEmptyTrial(spiketimes) == \E i \in 1..Len(spiketimes) : spiketimes[i] = <<>>

AllSpikes(spiketimes) == UNION {Range(spiketimes[i]) : i \in 1..Len(spiketimes)}

MaxSpiketime(spiketimes) == SetMax(AllSpikes(spiketimes))
MinSpiketime(spiketimes) == SetMin(AllSpikes(spiketimes))

EffectiveTmin(a, min_spiketime) ==
    IF IsNone(a.tmin) THEN SetMin({0, min_spiketime}) ELSE Val(a.tmin)

EffectiveTmax(a, max_spiketime) ==
    IF IsNone(a.tmax) THEN max_spiketime ELSE Val(a.tmax)

BoundsErrorBuggyStrict(tmin, tmax, min_spiketime, max_spiketime) ==
    IF tmax <= tmin THEN "ValueError: tmax must be greater than or equal to tmin"
    ELSE IF tmax < max_spiketime
         THEN "ValueError: tmax must be greater than the max spike time"
    ELSE IF tmin > min_spiketime
         THEN "ValueError: tmin must be less than the minimum spike time"
    ELSE ""

\* The three checks on the bounds, in the order of the code.
BoundsError(tmin, tmax, min_spiketime, max_spiketime) ==
    IF tmax < tmin THEN "ValueError: tmax must be greater than or equal to tmin"
    ELSE IF tmax < max_spiketime
         THEN "ValueError: tmax must be greater than the max spike time"
    ELSE IF tmin > min_spiketime
         THEN "ValueError: tmin must be less than the minimum spike time"
    ELSE ""

EventsError(ev) ==
    IF ev.kind # "none" /\ AtLeast1d(ev).ndim # 1
    THEN "ValueError: Events must have a single dimension"
    ELSE ""

\* The exception __init__ raises on arguments a, "" when it returns.
InitError(a) ==
    IF ArgIsEmpty(a.spiketimes) THEN "IndexError: list index out of range"
    ELSE LET spiketimes == Wrap(a.spiketimes) IN
    IF HasEmptyTrial(spiketimes) THEN "ValueError: max() arg is an empty sequence"
    ELSE LET max_spiketime == MaxSpiketime(spiketimes)
             min_spiketime == MinSpiketime(spiketimes)
             tmin == EffectiveTmin(a, min_spiketime)
             tmax == EffectiveTmax(a, max_spiketime)
             be == BoundsError(tmin, tmax, min_spiketime, max_spiketime)
         IN  IF be # "" THEN be ELSE EventsError(a.events)

\* The attributes __init__ sets when it returns.
NewNeuron(a) ==
    LET spiketimes == Wrap(a.spiketimes)
        max_spiketime == MaxSpiketime(spiketimes)
        min_spiketime == MinSpiketime(spiketimes)
        tmin == EffectiveTmin(a, min_spiketime)
        tmax == EffectiveTmax(a, max_spiketime)
        time == Arange(IntTimesSfreq(tmin, a.sfreq), IntTimesSfreq(tmax, a.sfreq))
        events == IF a.events.kind # "none" THEN AtLeast1d(a.events).items
                  ELSE Ones(Len(spiketimes))
        event_id == IF a.events.kind # "none" THEN EventId(Unique(events))
                    ELSE DefaultEventId
    IN  [spiketimes |-> spiketimes,
         max_spiketime |-> max_spiketime,
         min_spiketime |-> min_spiketime,
         n_epochs |-> Len(spiketimes),
         sfreq |-> a.sfreq,
         time |-> DivBySfreq(time, a.sfreq),
         tmin |-> tmin,
         tmax |-> tmax,
         events |-> events,
         event_id |-> event_id]

NoNeuron == [n_epochs |-> 0]

----------------------------------------------------------------------------
(* Neuron.spikes *)

\* data[ii, j] with numpy's index rule on a row of n columns: the 1-based
\* position, or 0 for IndexError.
Position(j, n) ==
    IF 0 <= j /\ j < n THEN j + 1
    ELSE IF -n <= j /\ j < 0 THEN j + n + 1
    ELSE 0

\* The index the code computes for a spike: int(spike * sfreq) - 1, where
\* spike is already shifted by tmin.
SpikeIndex(spike, sfreq) == IntTimesSfreq(spike, sfreq) - 1

\* The inner loop over one trial: the row, or ok = FALSE once an index is
\* out of range.
RECURSIVE BinTrial(_, _, _, _)
BinTrial(row, trial, tmin, sfreq) ==
    IF trial = <<>> THEN [ok |-> TRUE, row |-> row]
    ELSE LET p == Position(SpikeIndex(Head(trial) - tmin, sfreq), Len(row)) IN
         IF p = 0 THEN [ok |-> FALSE, row |-> row]
         ELSE BinTrial([row EXCEPT ![p] = @ + 1], Tail(trial), tmin, sfreq)

\* The property: np.zeros, then the loop over the trials.
Spikes(n) ==
    LET zeros == [k \in 1..Len(n.time) |-> 0]
        rows == [ii \in 1..n.n_epochs |->
                    BinTrial(zeros, n.spiketimes[ii], n.tmin, n.sfreq)]
    IN  IF \A ii \in 1..n.n_epochs : rows[ii].ok
        THEN [raised |-> "", data |-> [ii \in 1..n.n_epochs |-> rows[ii].row]]
        ELSE [raised |-> "IndexError: index out of bounds", data |-> <<>>]

----------------------------------------------------------------------------
(* Neuron.to_mne *)

\* events = [self.event_id[event] for event in events] for string labels,
\* the labels themselves otherwise.
EventCodes(n) ==
    IF n.events[1].t = "str"
    THEN [i \in 1..Len(n.events) |-> n.event_id[n.events[i]]]
    ELSE [i \in 1..Len(n.events) |-> n.events[i].v]

\* np.column_stack([range(len(events)), np.zeros_like(events), events])
ColumnStack(codes) == [i \in 1..Len(codes) |-> <<i - 1, 0, codes[i]>>]

NotCalled == [called |-> FALSE, raised |-> "", data |-> <<>>]
MneNotCalled == [called |-> FALSE, raised |-> "", events |-> <<>>]

ToMneResult(n, mne_installed) ==
    IF ~mne_installed
    THEN [called |-> TRUE, raised |-> "ModuleNotFoundError: MNE is not installed.",
          events |-> <<>>]
    ELSE IF Spikes(n).raised # ""
    THEN [called |-> TRUE, raised |-> Spikes(n).raised, events |-> <<>>]
    ELSE IF n.events = <<>>
    THEN [called |-> TRUE, raised |-> "IndexError: index 0 is out of bounds",
          events |-> <<>>]
    ELSE [called |-> TRUE, raised |-> "", events |-> ColumnStack(EventCodes(n))]

----------------------------------------------------------------------------
(* The inputs. *)

SeqsUpTo(S, n) == UNION {[1..k -> S] : k \in 0..n}

NestedArg(trials) == [flat |-> FALSE, times |-> <<>>, trials |-> trials]
FlatArg(times) == [flat |-> TRUE, times |-> times, trials |-> <<>>]

SpiketimeArgs(T) ==
    {NestedArg(tr) : tr \in SeqsUpTo(SeqsUpTo(T, MaxSpikes), MaxTrials)}
    \cup {FlatArg(s) : s \in SeqsUpTo(T, MaxSpikes)}

Optional(S) == {None} \cup {Some(v) : v \in S}

NoEvents == [kind |-> "none", labels |-> <<>>]
ScalarEvents(l) == [kind |-> "scalar", labels |-> <<l>>]
ListEvents(ls) == [kind |-> "list", labels |-> ls]
NestedEvents(ls) == [kind |-> "nested", labels |-> ls]

\* 10 bins per second and 20 bins per second, in bins per base unit.
Sfreqs == {<<1, 10>>, <<1, 5>>}

\* The scenario of the documentation: trials [[0.12, 0.45, 0.46], [0.30]],
\* sfreq 10, tmin 0, tmax 0.5.
ScenarioArgs ==
    [spiketimes |-> NestedArg(<< <<12, 45, 46>>, <<30>> >>), sfreq |-> <<1, 10>>,
     tmin |-> Some(0), tmax |-> Some(50),
     events |-> ListEvents(<<StrLabel(97), StrLabel(98)>>)]

BinTimes == {-15, 0, 12, 39}
BinArgs ==
    [spiketimes : SpiketimeArgs(BinTimes), sfreq : Sfreqs,
     tmin : Optional({-15, 0, 12}), tmax : Optional({12, 39, 50}),
     events : {NoEvents}]
    \cup {ScenarioArgs}

BoundsTimes == {0, 20}
BoundsArgs ==
    [spiketimes : SpiketimeArgs(BoundsTimes), sfreq : {<<1, 10>>},
     tmin : Optional({-15, 0, 12, 20}), tmax : Optional({-15, 0, 12, 20, 39}),
     events : {NoEvents}]

StrLabels == {StrLabel(c) : c \in {97, 98, 99}}
IntLabels == {IntLabel(i) : i \in {0, 5, 7}}
EventsArgsSet ==
    {NoEvents}
    \cup {ScalarEvents(l) : l \in StrLabels \cup IntLabels}
    \cup {ListEvents(ls) : ls \in SeqsUpTo(StrLabels, MaxEvents)}
    \cup {ListEvents(ls) : ls \in SeqsUpTo(IntLabels, MaxEvents)}
    \cup {NestedEvents(ls) : ls \in [1..2 -> StrLabels]}

EventsTimes == {12}
EventsArgs ==
    [spiketimes : SpiketimeArgs(EventsTimes), sfreq : {<<1, 10>>, <<1, 20>>},
     tmin : {None}, tmax : {None},
     events : EventsArgsSet]

----------------------------------------------------------------------------
(* The state machine. *)

InitWith(A) ==
    /\ args \in A
    /\ pc = "new"
    /\ init_error = ""
    /\ neuron = NoNeuron
    /\ spikes_out = NotCalled
    /\ mne_out = MneNotCalled

Init == InitWith(BinArgs)
InitBounds == InitWith(BoundsArgs)
InitEvents == InitWith(EventsArgs)

\* neuron = Neuron(spiketimes, sfreq, tmin, tmax, name, events)
Construct ==
    /\ pc = "new"
    /\ init_error' = InitError(args)
    /\ IF InitError(args) = ""
       THEN pc' = "constructed" /\ neuron' = NewNeuron(args)
       ELSE pc' = "failed" /\ neuron' = NoNeuron
    /\ UNCHANGED <<args, spikes_out, mne_out>>

\* neuron.spikes
AccessSpikes ==
    /\ pc = "constructed"
    /\ spikes_out' = [called |-> TRUE, raised |-> Spikes(neuron).raised,
                      data |-> Spikes(neuron).data]
    /\ UNCHANGED <<args, pc, init_error, neuron, mne_out>>

\* neuron.to_mne(), with the mne package installed or not
ToMne ==
    /\ pc = "constructed"
    /\ \E mne_installed \in BOOLEAN : mne_out' = ToMneResult(neuron, mne_installed)
    /\ UNCHANGED <<args, pc, init_error, neuron, spikes_out>>

Next == Construct \/ AccessSpikes \/ ToMne

Spec == Init /\ [][Next]_vars
SpecBounds == InitBounds /\ [][Next]_vars
SpecEvents == InitEvents /\ [][Next]_vars

----------------------------------------------------------------------------
(* Vocabulary of the properties, defined without the operators above. *)

Constructed == pc = "constructed"
SpikesReturned == Constructed /\ spikes_out.called /\ spikes_out.raised = ""
ToMneReturned == Constructed /\ mne_out.called /\ mne_out.raised = ""

\* floor(t * sfreq)
FloorTimesSfreq(t, sfreq) == (t * sfreq[1]) \div sfreq[2]

RECURSIVE SumSeq(_)
SumSeq(s) == IF s = <<>> THEN 0 ELSE Head(s) + SumSeq(Tail(s))

\* How many entries of the trial satisfy P.
CountIn(trial, P(_)) == Cardinality({k \in 1..Len(trial) : P(trial[k])})

\* The trials the caller passed, when there is at least one.
ArgTrials == IF args.spiketimes.flat THEN <<args.spiketimes.times>>
             ELSE args.spiketimes.trials
ArgHasTrials == IF args.spiketimes.flat THEN args.spiketimes.times # <<>>
                ELSE args.spiketimes.trials # <<>>
ArgAllTrialsNonEmpty == \A i \in 1..Len(ArgTrials) : ArgTrials[i] # <<>>
ArgHasSpike == \E i \in 1..Len(ArgTrials) : ArgTrials[i] # <<>>
ArgSpikeSet == UNION {{ArgTrials[i][k] : k \in 1..Len(ArgTrials[i])} : i \in 1..Len(ArgTrials)}
IsGlobalMin(m) ==
    /\ \E i \in 1..Len(ArgTrials) : \E k \in 1..Len(ArgTrials[i]) : ArgTrials[i][k] = m
    /\ \A i \in 1..Len(ArgTrials) : \A k \in 1..Len(ArgTrials[i]) : m <= ArgTrials[i][k]
IsGlobalMax(m) ==
    /\ \E i \in 1..Len(ArgTrials) : \E k \in 1..Len(ArgTrials[i]) : ArgTrials[i][k] = m
    /\ \A i \in 1..Len(ArgTrials) : \A k \in 1..Len(ArgTrials[i]) : ArgTrials[i][k] <= m

BoundsErrors ==
    {"ValueError: tmax must be greater than or equal to tmin",
     "ValueError: tmax must be greater than the max spike time",
     "ValueError: tmin must be less than the minimum spike time"}

----------------------------------------------------------------------------
(* C1: whenever the count matrix of a constructed neuron is accessed, the  *)
(* access returns, and every row sums to the number of spike times of its  *)
(* trial.                                                                  *)
C1_RowSumsEqualSpikeCounts ==
    (Constructed /\ spikes_out.called) =>
        /\ spikes_out.raised = ""
        /\ \A r \in 1..Len(neuron.spiketimes) :
               SumSeq(spikes_out.data[r]) = Len(neuron.spiketimes[r])

(* C2: entry [r, i] of the returned count matrix is the number of spike    *)
(* times s of trial r with tmin <= s < tmax and floor((s - tmin) * sfreq)  *)
(* = i; in the documented scenario row 0 has 1 at index 1 and 2 at index   *)
(* 4, and row 1 has 1 at index 3.                                          *)
C2_EntryCountsSpikesOfItsBin ==
    SpikesReturned =>
        /\ \A r \in 1..Len(spikes_out.data) :
           \A i \in 0..(Len(spikes_out.data[r]) - 1) :
               LET InBin(s) == /\ neuron.tmin <= s
                               /\ s < neuron.tmax
                               /\ FloorTimesSfreq(s - neuron.tmin, neuron.sfreq) = i
               IN  spikes_out.data[r][i + 1] = CountIn(neuron.spiketimes[r], InBin)
        /\ args = ScenarioArgs =>
               /\ spikes_out.data[1][2] = 1
               /\ spikes_out.data[1][5] = 2
               /\ spikes_out.data[2][4] = 1

(* C3: with tmin < tmax, a trial made only of spikes at tmin and at tmax   *)
(* is binned without an index error, and in every returned matrix the      *)
(* first bin of a row holds at least the row's spikes at tmin and the last *)
(* bin at least its spikes at tmax.                                        *)
C3_BoundarySpikesAtTheEnds ==
    (Constructed /\ spikes_out.called /\ neuron.tmin < neuron.tmax) =>
        LET AtTmin(s) == s = neuron.tmin
            AtTmax(s) == s = neuron.tmax
            OnlyBoundary == \A r \in 1..Len(neuron.spiketimes) :
                            \A k \in 1..Len(neuron.spiketimes[r]) :
                                \/ AtTmin(neuron.spiketimes[r][k])
                                \/ AtTmax(neuron.spiketimes[r][k])
        IN  /\ OnlyBoundary => spikes_out.raised = ""
            /\ spikes_out.raised = "" =>
                 \A r \in 1..Len(spikes_out.data) :
                    LET row == spikes_out.data[r]
                        trial == neuron.spiketimes[r]
                    IN  /\ CountIn(trial, AtTmin) > 0 =>
                               (row # <<>> /\ row[1] >= CountIn(trial, AtTmin))
                        /\ CountIn(trial, AtTmax) > 0 =>
                               (row # <<>> /\ row[Len(row)] >= CountIn(trial, AtTmax))

(* C4: the time axis of a constructed neuron has floor(tmax * sfreq) -     *)
(* floor(tmin * sfreq) bins, its k-th entry is (floor(tmin * sfreq) + k) / *)
(* sfreq, and a returned count matrix has one row per trial and that many  *)
(* columns.                                                                *)
C4_TimeAxisIsTheFloorGrid ==
    Constructed =>
        LET lo == FloorTimesSfreq(neuron.tmin, neuron.sfreq)
            hi == FloorTimesSfreq(neuron.tmax, neuron.sfreq)
        IN  /\ Len(neuron.time) = hi - lo
            /\ \A k \in 0..(Len(neuron.time) - 1) :
                   neuron.time[k + 1].num * neuron.sfreq[1]
                       = (lo + k) * neuron.sfreq[2] * neuron.time[k + 1].den
            /\ SpikesReturned =>
                   /\ Len(spikes_out.data) = Len(neuron.spiketimes)
                   /\ \A r \in 1..Len(spikes_out.data) :
                          Len(spikes_out.data[r]) = hi - lo

C6_LabelCountMatchesTrials ==
    (pc # "new" /\ args.events.kind \in {"scalar", "list"}
        /\ ArgHasTrials /\ ArgAllTrialsNonEmpty) =>
        /\ Len(args.events.labels) # Len(ArgTrials) =>
               /\ pc = "failed"
               /\ init_error = "ValueError: Events must have a single dimension"
        /\ Constructed => Len(neuron.events) = Len(neuron.spiketimes)

(* C7: a collection of at least one trial, some of them empty, whose       *)
(* bounds are valid for the spikes that exist, is constructed, and the     *)
(* rows of its empty trials in a returned count matrix are all zeros.      *)
C7_EmptyTrialsAccepted ==
    (pc # "new" /\ ~args.spiketimes.flat /\ ArgHasTrials /\ ArgHasSpike
        /\ ~ArgAllTrialsNonEmpty /\ args.events.kind = "none") =>
        \A gmin \in {m \in ArgSpikeSet : IsGlobalMin(m)} :
        \A gmax \in {m \in ArgSpikeSet : IsGlobalMax(m)} :
            LET tmin == IF args.tmin = <<>>
                        THEN (IF gmin < 0 THEN gmin ELSE 0) ELSE args.tmin[1]
                tmax == IF args.tmax = <<>> THEN gmax ELSE args.tmax[1]
            IN  (tmin <= tmax /\ tmin <= gmin /\ gmax <= tmax) =>
                    /\ Constructed
                    /\ neuron.min_spiketime = gmin
                    /\ neuron.max_spiketime = gmax
                    /\ SpikesReturned =>
                           \A r \in 1..Len(ArgTrials) :
                               ArgTrials[r] = <<>> =>
                                   \A i \in 1..Len(spikes_out.data[r]) :
                                       spikes_out.data[r][i] = 0

(* C8: with supplied labels, event_id has one key per distinct label and   *)
(* gives each label the number of distinct labels sorted before it: the    *)
(* codes 0..k-1 in sorted order, whatever the order and multiplicity of    *)
(* the labels.                                                             *)
C8_EventIdIsSortedRank ==
    (Constructed /\ args.events.kind \in {"scalar", "list"}) =>
        LET labels == {args.events.labels[i] : i \in 1..Len(args.events.labels)} IN
        /\ DOMAIN neuron.event_id = labels
        /\ \A l \in labels :
               neuron.event_id[l] = Cardinality({m \in labels : m.v < l.v})

C8_Witness ==
    /\ Constructed
    /\ args.events = ListEvents(<<StrLabel(98), StrLabel(97), StrLabel(98)>>)
    /\ neuron.event_id[StrLabel(97)] = 0
    /\ neuron.event_id[StrLabel(98)] = 1

(* C9: for string labels, the event table to_mne builds has one row per    *)
(* trial, and row i is (i, 0, event_id[label of trial i]).                 *)
C9_EventTableRowPerTrial ==
    (ToMneReturned /\ args.events.kind \in {"scalar", "list"}
        /\ \A i \in 1..Len(neuron.events) : neuron.events[i].t = "str") =>
        /\ Len(mne_out.events) = Len(neuron.spiketimes)
        /\ \A i \in 1..Len(mne_out.events) :
               /\ i <= Len(neuron.events)
               /\ mne_out.events[i] = <<i - 1, 0, neuron.event_id[neuron.events[i]]>>

(* C10: the codes in the third column of the event table to_mne builds     *)
(* are exactly the values of event_id, for string, integer and absent      *)
(* labels alike.                                                           *)
C10_TableCodesAreEventIdValues ==
    ToMneReturned =>
        LET codes == {mne_out.events[i][3] : i \in 1..Len(mne_out.events)}
            ids == {neuron.event_id[l] : l \in DOMAIN neuron.event_id}
        IN  codes = ids

====
